---- MODULE Spec2Model ----
(***************************************************************************)
(* A model of notebook_mcp/server.py: the stored notebook document and the *)
(* tool handlers that read and edit it.  Every handler is one atomic step  *)
(* load -> validate -> mutate -> save, as the synchronous code runs it.    *)
(*                                                                         *)
(* Conventions                                                             *)
(*   - cell indices are Python's, 0-based; At(cells, i) reads cells[i].    *)
(*   - a text (str) is a sequence of one-character strings.                *)
(*   - Optional[int] is a sequence of length <= 1 (None is << >>).         *)
(*   - a metadata mapping is a function over MetaKeys; Absent marks a key  *)
(*     the dict does not hold.                                             *)
(*   - a handler is an operator from the loaded notebook and the call's    *)
(*     arguments to an outcome [status, saved, ret]: status is "ok" when   *)
(*     the handler returns and the exception's name when it raises, saved  *)
(*     is the sequence of documents handed to _save_notebook, ret is the   *)
(*     returned message in structured form.                                *)
(***************************************************************************)
EXTENDS Integers, Sequences, FiniteSets, TLC

VARIABLES
    disk,    \* the stored notebook (what nbformat.read returns for the path)
    prev,    \* the stored notebook before the last call
    last,    \* the last call: op, args, status, saves, ret
    before,  \* the call before the last one: op, status
    steps,   \* number of calls completed so far
    inflight \* per server process: the call that has loaded and not yet saved

vars == <<disk, prev, last, before, steps, inflight>>

\* Number of tool calls in a run.
MaxSteps == 2

(***************************************************************************)
(* Data: texts, metadata values, outputs, cells, documents                 *)
(***************************************************************************)

None == << >>

Absent == [t |-> "absent", v |-> << >>]

MetaKeys == {"k1", "k2"}

EmptyMeta == [k \in MetaKeys |-> Absent]

CellTypes == {"code", "markdown"}

\* nbformat.v4.new_code_cell(source=...): empty metadata, no outputs, no count.
new_code_cell(source) ==
    [cell_type |-> "code", source |-> source, metadata |-> EmptyMeta,
     outputs |-> << >>, execution_count |-> None]

\* nbformat.v4.new_markdown_cell(source=...): no outputs or execution_count key.
MarkdownCellWithCodeFields(source) ==
    [cell_type |-> "markdown", source |-> source, metadata |-> EmptyMeta,
     outputs |-> << >>, execution_count |-> None]
new_markdown_cell(source) ==
    [cell_type |-> "markdown", source |-> source, metadata |-> EmptyMeta]

\* hasattr(cell, "outputs") / hasattr(cell, "execution_count")
HasOutputs(cell) == "outputs" \in DOMAIN cell

HasExecutionCount(cell) == "execution_count" \in DOMAIN cell

\* cells[i] for a valid 0-based index
At(cells, i) == cells[i + 1]

\* list.pop(i) for a valid 0-based index: the list that remains
ListPop(cells, i) ==
    [j \in 1..(Len(cells) - 1) |-> IF j <= i THEN cells[j] ELSE cells[j + 1]]

\* list.insert(i, x): Python clamps i into [0, len] (negative i counts from
\* the end before clamping)
ListInsert(cells, i, x) ==
    LET n == Len(cells)
        k == IF i < 0 THEN (IF n + i < 0 THEN 0 ELSE n + i)
             ELSE (IF i > n THEN n ELSE i)
    IN  [j \in 1..(n + 1) |->
            IF j <= k THEN cells[j]
            ELSE IF j = k + 1 THEN x
            ELSE cells[j - 1]]

\* cells[i] = x for a valid 0-based index
ListSet(cells, i, x) == [cells EXCEPT ![i + 1] = x]

O_stream == [output_type |-> "stream", name |-> "stdout", text |-> <<"o">>]

O_error == [output_type |-> "error", ename |-> <<"E">>, evalue |-> <<"v">>]

StrVal(chars) == [t |-> "str", v |-> chars]

CellA ==
    [cell_type |-> "code", source |-> <<"a", ".", "b">>,
     metadata |-> [EmptyMeta EXCEPT !["k1"] = StrVal(<<"t">>)],
     outputs |-> <<O_stream, O_error>>, execution_count |-> <<1>>]

CellB ==
    [cell_type |-> "markdown", source |-> <<"a", "x", "b", "a">>,
     metadata |-> [EmptyMeta EXCEPT !["k2"] = StrVal(<<"u">>)]]

CellC ==
    [cell_type |-> "code", source |-> <<"A", "a", "a">>,
     metadata |-> EmptyMeta, outputs |-> << >>, execution_count |-> None]

Notebook(cells) == [cells |-> cells, metadata |-> EmptyMeta]

\* The documents a run starts from: empty, one cell, three cells.
InitDocs ==
    { Notebook(<< >>),
      Notebook(<<CellA>>),
      Notebook(<<CellA, CellB, CellC>>) }

(***************************************************************************)
(* Helpers of the source                                                   *)
(***************************************************************************)

\* _load_notebook(path): the stored document, read afresh by every call
_load_notebook == disk

\* _validate_cell_index(nb, index) raises exactly when this is FALSE
ValidateRejectingLast(nb, index) == ~(index < 0 \/ index >= Len(nb.cells) - 1)
_validate_cell_index(nb, index) == ~(index < 0 \/ index >= Len(nb.cells))

Raise(exc) == [status |-> exc, saved |-> << >>, ret |-> [kind |-> "raised"]]

Return(saved, ret) == [status |-> "ok", saved |-> saved, ret |-> ret]

ValueError == "ValueError"

(***************************************************************************)
(* Handlers: add, update, delete, move                                     *)
(***************************************************************************)

\* add_cell, lines 198-200: a given position outside [0, len] is refused
PositionNeverRefused(nb, position) == FALSE
PositionRefusedAtEnd(nb, position) ==
    position # None /\ (position[1] < 0 \/ position[1] >= Len(nb.cells))
PositionRefused(nb, position) ==
    position # None /\ (position[1] < 0 \/ position[1] > Len(nb.cells))

\* add_cell, line 207: nb.cells.insert(position, new_cell)
InsertAfterPosition(cells, position, new_cell) == ListInsert(cells, position + 1, new_cell)
InsertAtPosition(cells, position, new_cell) == ListInsert(cells, position, new_cell)

\* add_cell(path, cell_type, source, position): position is None or <<p>>
add_cell(nb, cell_type, source, position) ==
    LET new_cell == IF cell_type = "code" THEN new_code_cell(source)
                    ELSE new_markdown_cell(source)
        n == Len(nb.cells)
    IN  IF PositionRefused(nb, position)
        THEN Raise(ValueError)
        ELSE LET p   == IF position = None THEN n ELSE position[1]
                 nb2 == [nb EXCEPT !.cells = InsertAtPosition(nb.cells, p, new_cell)]
             IN  Return(<<nb2>>,
                        [kind |-> "added", position |-> p, count |-> Len(nb2.cells)])

\* update_cell, line 230: nb.cells[cell_index].source = new_source
FreshCellWithSource(cell, new_source) ==
    IF cell.cell_type = "code" THEN new_code_cell(new_source)
    ELSE new_markdown_cell(new_source)
WithSourceAndOutputsCleared(cell, new_source) ==
    IF HasOutputs(cell) THEN [cell EXCEPT !.source = new_source, !.outputs = << >>]
    ELSE [cell EXCEPT !.source = new_source]
WithSource(cell, new_source) == [cell EXCEPT !.source = new_source]

\* update_cell(path, cell_index, new_source)
update_cell(nb, cell_index, new_source) ==
    IF ~_validate_cell_index(nb, cell_index) THEN Raise(ValueError)
    ELSE LET old == At(nb.cells, cell_index)
             nb2 == [nb EXCEPT !.cells =
                        ListSet(nb.cells, cell_index, WithSource(old, new_source))]
         IN  Return(<<nb2>>, [kind |-> "updated", old |-> old.source, new |-> new_source])

\* delete_cell(path, cell_index)
delete_cell(nb, cell_index) ==
    IF ~_validate_cell_index(nb, cell_index) THEN Raise(ValueError)
    ELSE LET deleted_cell == At(nb.cells, cell_index)
             nb2 == [nb EXCEPT !.cells = ListPop(nb.cells, cell_index)]
         IN  Return(<<nb2>>,
                    [kind |-> "deleted", deleted |-> deleted_cell.source,
                     count |-> Len(nb2.cells)])

\* move_cell, lines 292-293: cell = nb.cells.pop(from_index); nb.cells.insert(to_index, cell)
MoveInsertBeforeOriginal(cells, from_index, to_index) ==
    ListPop(ListInsert(cells, to_index, At(cells, from_index)),
            IF to_index <= from_index THEN from_index + 1 ELSE from_index)
PopThenInsert(cells, from_index, to_index) ==
    ListInsert(ListPop(cells, from_index), to_index, At(cells, from_index))

\* move_cell(path, from_index, to_index)
MoveAdjustingTarget(nb, from_index, to_index) ==
    IF ~_validate_cell_index(nb, from_index) THEN Raise(ValueError)
    ELSE IF to_index < 0 \/ to_index >= Len(nb.cells) THEN Raise(ValueError)
    ELSE LET cell == At(nb.cells, from_index)
             nb2  == [nb EXCEPT !.cells =
                         ListInsert(ListPop(nb.cells, from_index),
                                    IF to_index > from_index THEN to_index - 1
                                    ELSE to_index,
                                    cell)]
         IN  Return(<<nb2>>, [kind |-> "moved", moved |-> cell.source])
move_cell(nb, from_index, to_index) ==
    IF ~_validate_cell_index(nb, from_index) THEN Raise(ValueError)
    ELSE IF to_index < 0 \/ to_index >= Len(nb.cells) THEN Raise(ValueError)
    ELSE LET cell == At(nb.cells, from_index)
             nb2  == [nb EXCEPT !.cells = PopThenInsert(nb.cells, from_index, to_index)]
         IN  Return(<<nb2>>, [kind |-> "moved", moved |-> cell.source])

(***************************************************************************)
(* Handlers: metadata                                                      *)
(***************************************************************************)

Digits == {"0", "1", "2", "3", "4", "5", "6", "7", "8", "9"}

\* json.loads(value) on the raw texts a call passes: a double-quoted text
\* without inner quotes or backslashes is a JSON string, a digit text without
\* a leading zero is a JSON number; on any other text of RawValues json.loads
\* raises JSONDecodeError.  [ok, value]
json_loads(value) ==
    LET n == Len(value)
    IN  IF n >= 2 /\ value[1] = "\"" /\ value[n] = "\""
           /\ \A k \in 2..(n - 1) : value[k] \notin {"\"", "\\"}
        THEN [ok |-> TRUE, value |-> StrVal(SubSeq(value, 2, n - 1))]
        ELSE IF n >= 1 /\ (\A k \in 1..n : value[k] \in Digits)
                /\ (n = 1 \/ value[1] # "0")
        THEN [ok |-> TRUE, value |-> [t |-> "num", v |-> value]]
        ELSE [ok |-> FALSE, value |-> Absent]

\* try: parsed_value = json.loads(value) / except JSONDecodeError: parsed_value = value
RawValueStored(value) == StrVal(value)
parsed_value(value) ==
    IF json_loads(value).ok THEN json_loads(value).value ELSE StrVal(value)

\* update_notebook_metadata(path, key, value)
update_notebook_metadata(nb, key, value) ==
    LET nb2 == [nb EXCEPT !.metadata[key] = parsed_value(value)]
    IN  Return(<<nb2>>, [kind |-> "nb_metadata", key |-> key, value |-> parsed_value(value)])

\* update_cell_metadata(path, cell_index, key, value)
UpdateSharedMetadata(nb, cell_index, key, value) ==
    IF ~_validate_cell_index(nb, cell_index) THEN Raise(ValueError)
    ELSE LET shared == At(nb.cells, cell_index).metadata
             nb2 == [nb EXCEPT !.cells =
                        [j \in 1..Len(nb.cells) |->
                            IF nb.cells[j].metadata = shared
                            THEN [nb.cells[j] EXCEPT !.metadata[key] = parsed_value(value)]
                            ELSE nb.cells[j]]]
         IN  Return(<<nb2>>,
                    [kind |-> "cell_metadata", key |-> key, value |-> parsed_value(value)])
update_cell_metadata(nb, cell_index, key, value) ==
    IF ~_validate_cell_index(nb, cell_index) THEN Raise(ValueError)
    ELSE LET nb2 == [nb EXCEPT !.cells[cell_index + 1].metadata[key] = parsed_value(value)]
         IN  Return(<<nb2>>,
                    [kind |-> "cell_metadata", key |-> key, value |-> parsed_value(value)])

(***************************************************************************)
(* Handlers: duplicate, change type                                        *)
(***************************************************************************)

\* duplicate_cell, lines 800-807: a fresh cell of the original's type and
\* source, then new_cell.metadata = dict(original_cell.metadata)
DuplicateKeepingOutputs(original_cell) == original_cell
DuplicateOf(original_cell) ==
    LET new_cell == IF original_cell.cell_type = "code"
                    THEN new_code_cell(original_cell.source)
                    ELSE new_markdown_cell(original_cell.source)
    IN  [new_cell EXCEPT !.metadata = original_cell.metadata]

\* duplicate_cell(path, cell_index)
duplicate_cell(nb, cell_index) ==
    IF ~_validate_cell_index(nb, cell_index) THEN Raise(ValueError)
    ELSE LET original_cell   == At(nb.cells, cell_index)
             insert_position == cell_index + 1
             nb2 == [nb EXCEPT !.cells =
                        ListInsert(nb.cells, insert_position, DuplicateOf(original_cell))]
         IN  Return(<<nb2>>,
                    [kind |-> "duplicated", position |-> insert_position,
                     preview |-> original_cell.source])

\* change_cell_type, lines 852-862: a fresh cell of new_type with the old
\* source, then every metadata entry of the old cell assigned into it
RetypeInPlace(old_cell, new_type) == [old_cell EXCEPT !.cell_type = new_type]
Retyped(old_cell, new_type) ==
    LET new_cell == IF new_type = "code" THEN new_code_cell(old_cell.source)
                    ELSE new_markdown_cell(old_cell.source)
    IN  [new_cell EXCEPT !.metadata =
            [k \in MetaKeys |->
                IF old_cell.metadata[k] # Absent THEN old_cell.metadata[k]
                ELSE new_cell.metadata[k]]]

\* change_cell_type, line 849: if old_type == new_type
NeverSameType(old_type, new_type) == FALSE
SameType(old_type, new_type) == old_type = new_type

\* change_cell_type(path, cell_index, new_type)
change_cell_type(nb, cell_index, new_type) ==
    IF ~_validate_cell_index(nb, cell_index) THEN Raise(ValueError)
    ELSE LET old_cell == At(nb.cells, cell_index)
             old_type == old_cell.cell_type
         IN  IF SameType(old_type, new_type)
             THEN Return(<< >>, [kind |-> "already_type", type |-> new_type])
             ELSE LET nb2 == [nb EXCEPT !.cells =
                                ListSet(nb.cells, cell_index, Retyped(old_cell, new_type))]
                  IN  Return(<<nb2>>,
                             [kind |-> "type_changed", old_type |-> old_type,
                              new_type |-> new_type])

(***************************************************************************)
(* Handlers: reads                                                         *)
(***************************************************************************)

SummaryWidth == 50

\* _format_cell_summary(cell, index): "[index] type: preview", the preview being
\* source[:50] with each newline replaced by a space, "..." after a longer source
_format_cell_summary(cell, index) ==
    LET head == IF Len(cell.source) > SummaryWidth
                THEN SubSeq(cell.source, 1, SummaryWidth)
                ELSE cell.source
        preview == [k \in 1..Len(head) |-> IF head[k] = "\n" THEN " " ELSE head[k]]
    IN  [index |-> index, cell_type |-> cell.cell_type,
         preview |-> IF Len(cell.source) > SummaryWidth
                     THEN preview \o <<".", ".", ".">>
                     ELSE preview]

\* read_notebook(path): the cell count and one summary per cell, in order (no
\* document of the model holds a kernelspec entry, so no kernel line)
ReadNotebookWritingBack(nb) ==
    Return(<<nb>>,
           [kind |-> "notebook", count |-> Len(nb.cells),
            cells |-> [k \in 1..Len(nb.cells) |-> _format_cell_summary(nb.cells[k], k - 1)]])
read_notebook(nb) ==
    Return(<< >>,
           [kind |-> "notebook", count |-> Len(nb.cells),
            cells |-> [k \in 1..Len(nb.cells) |-> _format_cell_summary(nb.cells[k], k - 1)]])

\* read_cell(path, cell_index): type, full source, metadata, output types
read_cell(nb, cell_index) ==
    IF ~_validate_cell_index(nb, cell_index) THEN Raise(ValueError)
    ELSE LET cell == At(nb.cells, cell_index)
         IN  Return(<< >>,
                    [kind |-> "cell", cell_type |-> cell.cell_type,
                     source |-> cell.source, metadata |-> cell.metadata,
                     output_types |->
                        IF cell.cell_type = "code" /\ HasOutputs(cell)
                        THEN [k \in 1..Len(cell.outputs) |-> cell.outputs[k].output_type]
                        ELSE << >>])

\* text[:limit] + ("..." if len(text) > limit else "")
PreviewLimit == 200

Truncated(text, limit) ==
    IF Len(text) > limit THEN SubSeq(text, 1, limit) \o <<".", ".", ".">> ELSE text

\* _extract_cell_info's entry for one output
OutputSummary(output) ==
    IF output.output_type = "stream"
    THEN [type |-> "stream", preview |-> Truncated(output.text, PreviewLimit)]
    ELSE IF output.output_type = "error"
    THEN [type |-> "error", ename |-> output.ename, evalue |-> output.evalue]
    ELSE [type |-> output.output_type]

\* _extract_cell_info(cell, idx, is_target): the outputs entry exists only for a
\* code cell with at least one output
_extract_cell_info(cell, idx, is_target) ==
    IF cell.cell_type # "code"
    THEN [index |-> idx, cell_type |-> cell.cell_type, source |-> cell.source,
          is_target |-> is_target]
    ELSE IF ~HasOutputs(cell) \/ cell.outputs = << >>
    THEN [index |-> idx, cell_type |-> cell.cell_type, source |-> cell.source,
          is_target |-> is_target,
          execution_count |-> IF HasExecutionCount(cell) THEN cell.execution_count ELSE None]
    ELSE [index |-> idx, cell_type |-> cell.cell_type, source |-> cell.source,
          is_target |-> is_target,
          execution_count |-> IF HasExecutionCount(cell) THEN cell.execution_count ELSE None,
          outputs |-> [k \in 1..Len(cell.outputs) |-> OutputSummary(cell.outputs[k])]]

Max(a, b) == IF a >= b THEN a ELSE b

Min(a, b) == IF a <= b THEN a ELSE b

\* get_cell_context, line 535: end_idx = min(len(nb.cells), cell_index + context_size + 1)
WindowEndInclusive(n, cell_index, context_size) == Min(n, cell_index + context_size)
WindowEnd(n, cell_index, context_size) == Min(n, cell_index + context_size + 1)

\* get_cell_context(path, cell_index, context_size)
GetCellContextAbsRadius(nb, cell_index, context_size) ==
    IF ~_validate_cell_index(nb, cell_index) THEN Raise(ValueError)
    ELSE LET radius    == IF context_size < 0 THEN -context_size ELSE context_size
             start_idx == Max(0, cell_index - radius)
             end_idx   == WindowEnd(Len(nb.cells), cell_index, radius)
         IN  Return(<< >>,
                    [kind |-> "context", total_cells |-> Len(nb.cells),
                     start_idx |-> start_idx, end_idx |-> end_idx,
                     cells |-> [k \in 1..Max(0, end_idx - start_idx) |->
                                  _extract_cell_info(At(nb.cells, start_idx + k - 1),
                                                     start_idx + k - 1,
                                                     start_idx + k - 1 = cell_index)]])
get_cell_context(nb, cell_index, context_size) ==
    IF ~_validate_cell_index(nb, cell_index) THEN Raise(ValueError)
    ELSE LET start_idx == Max(0, cell_index - context_size)
             end_idx   == WindowEnd(Len(nb.cells), cell_index, context_size)
         IN  Return(<< >>,
                    [kind |-> "context", total_cells |-> Len(nb.cells),
                     start_idx |-> start_idx, end_idx |-> end_idx,
                     cells |-> [k \in 1..Max(0, end_idx - start_idx) |->
                                  _extract_cell_info(At(nb.cells, start_idx + k - 1),
                                                     start_idx + k - 1,
                                                     start_idx + k - 1 = cell_index)]])

\* read_cell_output(path, cell_index)
read_cell_output(nb, cell_index) ==
    IF ~_validate_cell_index(nb, cell_index) THEN Raise(ValueError)
    ELSE LET cell == At(nb.cells, cell_index)
         IN  IF cell.cell_type # "code"
             THEN Return(<< >>, [kind |-> "not_code", cell_type |-> cell.cell_type])
             ELSE IF ~HasOutputs(cell) \/ cell.outputs = << >>
             THEN Return(<< >>, [kind |-> "no_output"])
             ELSE Return(<< >>,
                         [kind |-> "outputs",
                          types |-> [k \in 1..Len(cell.outputs) |->
                                        cell.outputs[k].output_type]])

(***************************************************************************)
(* Python's re on the texts of the model.  The alphabet is a, b, x, n, A,  *)
(* the metacharacters . ( and the backslash; no text holds a newline or a  *)
(* closing parenthesis.                                                    *)
(***************************************************************************)

\* The characters of the alphabet re.escape puts a backslash before.
SpecialChars == {".", "(", "\\"}

\* re.escape(pattern)
EscapeNothing(pattern) == pattern
RECURSIVE re_escape(_)
re_escape(pattern) ==
    IF pattern = << >> THEN << >>
    ELSE (IF Head(pattern) \in SpecialChars THEN <<"\\", Head(pattern)>>
          ELSE <<Head(pattern)>>) \o re_escape(Tail(pattern))

Literal(ch) == [any |-> FALSE, ch |-> ch]

AnyChar == [any |-> TRUE, ch |-> "."]

\* The parse of a pattern: one atom per character matched.  A backslash makes
\* the metacharacter after it a literal and is an error at the end of the
\* pattern; an unescaped "(" is never closed, which is an error; "." matches
\* any character.  [ok, atoms]
RECURSIVE ParsePattern(_)
ParsePattern(pattern) ==
    IF pattern = << >> THEN [ok |-> TRUE, atoms |-> << >>]
    ELSE IF Head(pattern) = "\\"
    THEN IF Len(pattern) = 1 THEN [ok |-> FALSE, atoms |-> << >>]
         ELSE CASE pattern[2] \in SpecialChars ->
                LET rest == ParsePattern(SubSeq(pattern, 3, Len(pattern)))
                IN  [ok |-> rest.ok, atoms |-> <<Literal(pattern[2])>> \o rest.atoms]
    ELSE IF Head(pattern) = "(" THEN [ok |-> FALSE, atoms |-> << >>]
    ELSE LET rest == ParsePattern(Tail(pattern))
             atom == IF Head(pattern) = "." THEN AnyChar ELSE Literal(Head(pattern))
         IN  [ok |-> rest.ok, atoms |-> <<atom>> \o rest.atoms]

\* re.compile(pattern, flags): [ok, atoms, ignorecase]; ~ok is re.error
re_compile(pattern, ignorecase) ==
    [ok |-> ParsePattern(pattern).ok,
     atoms |-> IF ParsePattern(pattern).ok THEN ParsePattern(pattern).atoms ELSE << >>,
     ignorecase |-> ignorecase]

\* str.lower() on one character of the alphabet
Lower(ch) == IF ch = "A" THEN "a" ELSE ch

AtomMatches(regex, atom, ch) ==
    IF atom.any THEN ch # "\n"
    ELSE IF regex.ignorecase THEN Lower(atom.ch) = Lower(ch)
    ELSE atom.ch = ch

\* Whether the pattern matches text[pos : pos + len(atoms)]
MatchAt(regex, text, pos) ==
    /\ pos + Len(regex.atoms) <= Len(text)
    /\ \A k \in 1..Len(regex.atoms) : AtomMatches(regex, regex.atoms[k], text[pos + k])

\* list(regex.finditer(text)): the non-overlapping matches from position pos
\* on, left to right; an empty pattern matches before every character and at
\* the end
RECURSIVE FindFrom(_, _, _)
FindFrom(regex, text, pos) ==
    IF pos > Len(text) THEN << >>
    ELSE IF MatchAt(regex, text, pos)
    THEN <<[start |-> pos, end |-> pos + Len(regex.atoms)]>>
         \o FindFrom(regex, text,
                     IF Len(regex.atoms) = 0 THEN pos + 1 ELSE pos + Len(regex.atoms))
    ELSE FindFrom(regex, text, pos + 1)

finditer(regex, text) == FindFrom(regex, text, 0)

\* The replacement text as a template: a backslash pair is one backslash; a
\* backslash before a digit is a group reference, invalid as no pattern of the
\* model has a group; a backslash before x, or at the end, is a bad escape.
\* [ok, text]; ~ok is re.error
RECURSIVE parse_template(_)
parse_template(repl) ==
    IF repl = << >> THEN [ok |-> TRUE, text |-> << >>]
    ELSE IF Head(repl) # "\\"
    THEN LET rest == parse_template(Tail(repl))
         IN  [ok |-> rest.ok, text |-> <<Head(repl)>> \o rest.text]
    ELSE IF Len(repl) = 1 THEN [ok |-> FALSE, text |-> << >>]
    ELSE CASE repl[2] = "\\" ->
                LET rest == parse_template(SubSeq(repl, 3, Len(repl)))
                IN  [ok |-> rest.ok, text |-> <<"\\">> \o rest.text]
           [] repl[2] \in Digits \cup {"x"} -> [ok |-> FALSE, text |-> << >>]

\* regex.sub(replacement, text) for a valid template: every match found by the
\* left-to-right scan is replaced by the expanded template
RECURSIVE SubFrom(_, _, _, _)
SubFrom(regex, expanded, text, pos) ==
    IF pos > Len(text) THEN << >>
    ELSE IF MatchAt(regex, text, pos)
    THEN IF Len(regex.atoms) = 0
         THEN expanded
              \o (IF pos < Len(text) THEN <<text[pos + 1]>> ELSE << >>)
              \o SubFrom(regex, expanded, text, pos + 1)
         ELSE expanded \o SubFrom(regex, expanded, text, pos + Len(regex.atoms))
    ELSE IF pos < Len(text)
    THEN <<text[pos + 1]>> \o SubFrom(regex, expanded, text, pos + 1)
    ELSE << >>

re_sub(regex, expanded, text) == SubFrom(regex, expanded, text, 0)

(***************************************************************************)
(* Handlers: search and replace                                            *)
(***************************************************************************)

RECURSIVE SumSeq(_)
SumSeq(s) == IF s = << >> THEN 0 ELSE Head(s) + SumSeq(Tail(s))

\* text.replace('\n', marker)
ReplaceNewlines(text, marker) ==
    [k \in 1..Len(text) |-> IF text[k] = "\n" THEN marker ELSE text[k]]

\* text[a:b] for 0 <= a <= b <= len(text)
Slice(text, a, b) == SubSeq(text, a + 1, b)

ContextWidth == 20

\* search_notebook, lines 405-406, and replace_in_notebook, lines 470-471:
\* except re.error as e: return the notice
PatternErrorRaised == Raise("re.error")
PatternErrorNotice == Return(<< >>, [kind |-> "pattern_error"])

\* search_notebook, lines 419-427: one report line per match
MatchReport(source, match) ==
    LET start == Max(0, match.start - ContextWidth)
        end   == Min(Len(source), match.end + ContextWidth)
    IN  [context |-> ReplaceNewlines(Slice(source, start, end), "NL"),
         match_text |-> Slice(source, match.start, match.end)]

\* search_notebook(path, pattern, use_regex, case_sensitive)
search_notebook(nb, pattern, use_regex, case_sensitive) ==
    LET escaped == IF ~use_regex THEN re_escape(pattern) ELSE pattern
        regex   == re_compile(escaped, ~case_sensitive)
    IN  IF ~regex.ok THEN PatternErrorNotice
        ELSE LET found == [j \in 1..Len(nb.cells) |-> finditer(regex, nb.cells[j].source)]
                 hit == SelectSeq([j \in 1..Len(nb.cells) |-> j - 1],
                                  LAMBDA i : found[i + 1] # << >>)
                 results ==
                    [k \in 1..Len(hit) |->
                        LET cell    == At(nb.cells, hit[k])
                            matches == found[hit[k] + 1]
                        IN  [cell |-> hit[k], cell_type |-> cell.cell_type,
                             matches |-> [j \in 1..Len(matches) |->
                                            MatchReport(cell.source, matches[j])]]]
                 total_matches == SumSeq([k \in 1..Len(hit) |-> Len(results[k].matches)])
             IN  IF total_matches = 0
                 THEN Return(<< >>, [kind |-> "no_results", pattern |-> escaped])
                 ELSE Return(<< >>,
                             [kind |-> "results", total |-> total_matches,
                              pattern |-> escaped, results |-> results])

PreviewWidth == 50

\* replace_in_notebook, lines 498-503: what is handed to _save_notebook once
\* some cell matched: nothing when preview_only, else the document, once
PersistedAlways(preview_only, nb2) == <<nb2>>
Persisted(preview_only, nb2) == IF preview_only THEN << >> ELSE <<nb2>>

\* replace_in_notebook, lines 476-485, for each cell in order: the match count
\* and, for a cell with matches, the text regex.sub gives (the template is
\* valid whenever this is used)
RECURSIVE ScanCells(_, _, _)
ScanCells(regex, template, cells) ==
    IF cells = << >> THEN << >>
    ELSE LET source == Head(cells).source
             count  == Len(finditer(regex, source))
         IN  <<[count |-> count,
                new_source |-> IF count > 0 /\ template.ok
                               THEN re_sub(regex, template.text, source)
                               ELSE source]>>
             \o ScanCells(regex, template, Tail(cells))

\* replace_in_notebook(path, pattern, replacement, use_regex, case_sensitive, preview_only)
replace_in_notebook(nb, pattern, replacement, use_regex, case_sensitive, preview_only) ==
    LET escaped == IF ~use_regex THEN re_escape(pattern) ELSE pattern
        regex   == re_compile(escaped, ~case_sensitive)
    IN  IF ~regex.ok THEN PatternErrorNotice
        ELSE
        LET template == parse_template(replacement)
            scan     == ScanCells(regex, template, nb.cells)
            hit      == SelectSeq([j \in 1..Len(nb.cells) |-> j - 1],
                                  LAMBDA i : scan[i + 1].count > 0)
        IN  IF hit # << >> /\ ~template.ok THEN Raise("re.error")
            ELSE
            LET changes ==
                    [k \in 1..Len(hit) |->
                        [cell |-> hit[k],
                         cell_type |-> At(nb.cells, hit[k]).cell_type,
                         count |-> scan[hit[k] + 1].count,
                         old_preview |->
                            ReplaceNewlines(
                                Slice(At(nb.cells, hit[k]).source, 0,
                                      Min(PreviewWidth, Len(At(nb.cells, hit[k]).source))),
                                "NL"),
                         new_preview |->
                            ReplaceNewlines(
                                Slice(scan[hit[k] + 1].new_source, 0,
                                      Min(PreviewWidth, Len(scan[hit[k] + 1].new_source))),
                                "NL")]]
                total_replacements == SumSeq([k \in 1..Len(hit) |-> changes[k].count])
                nb2 == [nb EXCEPT !.cells =
                            [j \in 1..Len(nb.cells) |->
                                IF scan[j].count > 0 /\ ~preview_only
                                THEN [nb.cells[j] EXCEPT !.source = scan[j].new_source]
                                ELSE nb.cells[j]]]
            IN  IF total_replacements = 0
                THEN Return(<< >>, [kind |-> "no_targets", pattern |-> escaped])
                ELSE Return(Persisted(preview_only, nb2),
                            [kind |-> IF preview_only THEN "preview" ELSE "replaced",
                             total |-> total_replacements, changes |-> changes])

(***************************************************************************)
(* Handlers: symbol extraction.  The four patterns of                      *)
(* get_notebook_variables are compiled with re.MULTILINE; a position p is   *)
(* the number of characters before it, so text[p + 1] is the character at  *)
(* p.                                                                      *)
(***************************************************************************)

Letters ==
    {"a", "b", "c", "d", "e", "f", "g", "h", "i", "j", "k", "l", "m", "n",
     "o", "p", "q", "r", "s", "t", "u", "v", "w", "x", "y", "z",
     "A", "B", "C", "D", "E", "F", "G", "H", "I", "J", "K", "L", "M", "N",
     "O", "P", "Q", "R", "S", "T", "U", "V", "W", "X", "Y", "Z"}

\* \w
WordChars == Letters \cup {"0", "1", "2", "3", "4", "5", "6", "7", "8", "9", "_"}

\* \s
Spaces == {" ", "\t", "\n"}

\* where a greedy run of characters of class, started at pos, stops
RECURSIVE RunEnd(_, _, _)
RunEnd(text, pos, class) ==
    IF pos < Len(text) /\ text[pos + 1] \in class
    THEN RunEnd(text, pos + 1, class)
    ELSE pos

\* where .* (no newline) stops when started at pos
RECURSIVE LineEnd(_, _)
LineEnd(text, pos) ==
    IF pos < Len(text) /\ text[pos + 1] # "\n"
    THEN LineEnd(text, pos + 1)
    ELSE pos

\* the literal word stands at pos
StartsWith(text, pos, word) ==
    /\ pos + Len(word) <= Len(text)
    /\ SubSeq(text, pos + 1, pos + Len(word)) = word

\* ^ under re.MULTILINE
IsLineStart(text, pos) == pos = 0 \/ text[pos] = "\n"

NoMatch == [ok |-> FALSE, value |-> << >>, end |-> 0]

\* str.strip()
RECURSIVE Strip(_)
Strip(text) ==
    IF text = << >> THEN text
    ELSE IF text[1] \in Spaces THEN Strip(Tail(text))
    ELSE IF text[Len(text)] \in Spaces THEN Strip(SubSeq(text, 1, Len(text) - 1))
    ELSE text

\* import\s+.+ at s, for a match begun at p; the value is match.group().strip()
ImportPart(text, p, s) ==
    LET a == s + 6
        b == RunEnd(text, a, Spaces)
        stops == {c \in (a + 1)..b : c < Len(text) /\ text[c + 1] # "\n"}
    IN  IF ~StartsWith(text, s, <<"i", "m", "p", "o", "r", "t">>) \/ stops = {}
        THEN NoMatch
        ELSE LET c == CHOOSE c \in stops : \A d \in stops : d <= c
                 end == LineEnd(text, c)
             IN  [ok |-> TRUE, value |-> Strip(SubSeq(text, p + 1, end)), end |-> end]

\* import_pattern: ^(?:from\s+[\w.]+\s+)?import\s+.+
ImportAt(text, p) ==
    LET a1 == p + 4
        a2 == RunEnd(text, a1, Spaces)
        a3 == RunEnd(text, a2, WordChars \cup {"."})
        a4 == RunEnd(text, a3, Spaces)
    IN  IF /\ StartsWith(text, p, <<"f", "r", "o", "m">>)
           /\ a2 > a1 /\ a3 > a2 /\ a4 > a3
           /\ ImportPart(text, p, a4).ok
        THEN ImportPart(text, p, a4)
        ELSE ImportPart(text, p, p)

\* (?!.*def\s|.*class\s) fails at q
DefinitionFollows(text, q) ==
    \E r \in q..LineEnd(text, q) :
        \/ /\ StartsWith(text, r, <<"d", "e", "f">>)
           /\ r + 3 < Len(text)
           /\ text[r + 4] \in Spaces
        \/ /\ StartsWith(text, r, <<"c", "l", "a", "s", "s">>)
           /\ r + 5 < Len(text)
           /\ text[r + 6] \in Spaces

\* variable_pattern: ^(\w+)\s*=\s*(?!.*def\s|.*class\s); the value is group(1)
VariableAt(text, p) ==
    LET q1 == RunEnd(text, p, WordChars)
        q2 == RunEnd(text, q1, Spaces)
        q3 == q2 + 1
        q4 == RunEnd(text, q3, Spaces)
        stops == {q \in q3..q4 : ~DefinitionFollows(text, q)}
    IN  IF q1 = p \/ q2 >= Len(text) THEN NoMatch
        ELSE IF text[q2 + 1] # "=" \/ stops = {} THEN NoMatch
        ELSE [ok |-> TRUE, value |-> SubSeq(text, p + 1, q1),
              end |-> CHOOSE q \in stops : \A d \in stops : d <= q]

\* ^keyword\s+(\w+)\s*[closers]; the value is group(1)
NamedAt(text, p, keyword, closers) ==
    LET q1 == p + Len(keyword)
        q2 == RunEnd(text, q1, Spaces)
        q3 == RunEnd(text, q2, WordChars)
        q4 == RunEnd(text, q3, Spaces)
    IN  IF ~StartsWith(text, p, keyword) \/ q2 = q1 \/ q3 = q2 \/ q4 >= Len(text)
        THEN NoMatch
        ELSE IF text[q4 + 1] \notin closers THEN NoMatch
        ELSE [ok |-> TRUE, value |-> SubSeq(text, q2 + 1, q3), end |-> q4 + 1]

\* function_pattern: ^def\s+(\w+)\s*\(
FunctionAt(text, p) == NamedAt(text, p, <<"d", "e", "f">>, {"("})

\* class_pattern: ^class\s+(\w+)\s*[\(:]
ClassAt(text, p) == NamedAt(text, p, <<"c", "l", "a", "s", "s">>, {"(", ":"})

SymbolKinds == {"import", "variable", "function", "class"}

SymbolAt(kind, text, p) ==
    CASE kind = "import"   -> ImportAt(text, p)
      [] kind = "variable" -> VariableAt(text, p)
      [] kind = "function" -> FunctionAt(text, p)
      [] kind = "class"    -> ClassAt(text, p)

\* pattern.finditer(source) from pos on: the values of the matches, in order
RECURSIVE FindSymbols(_, _, _)
FindSymbols(kind, text, pos) ==
    IF pos > Len(text) THEN << >>
    ELSE IF IsLineStart(text, pos) /\ SymbolAt(kind, text, pos).ok
    THEN LET m == SymbolAt(kind, text, pos)
         IN  <<m.value>> \o FindSymbols(kind, text, Max(m.end, pos + 1))
    ELSE FindSymbols(kind, text, pos + 1)

\* if cell.cell_type != "code": continue
ScannedAnyCell(cell) == TRUE
Scanned(cell) == cell.cell_type = "code"

\* if not var_name.startswith("_")
Listed(kind, name) == kind # "variable" \/ name[1] # "_"

\* the findings of one kind in cells[k..], as the report shows them: an import,
\* a function and a class with "[cell i]", a variable as its name alone
RECURSIVE Findings(_, _, _)
Findings(kind, cells, k) ==
    IF k > Len(cells) THEN << >>
    ELSE LET found == IF Scanned(cells[k])
                      THEN FindSymbols(kind, cells[k].source, 0)
                      ELSE << >>
             listed == SelectSeq(found, LAMBDA name : Listed(kind, name))
             shown == [j \in 1..Len(listed) |->
                          CASE kind = "import" ->
                                   [cell |-> k - 1, statement |-> listed[j]]
                            [] kind = "variable" -> [name |-> listed[j]]
                            [] OTHER -> [cell |-> k - 1, name |-> listed[j]]]
         IN  shown \o Findings(kind, cells, k + 1)

get_notebook_variables(nb) ==
    LET imports == Findings("import", nb.cells, 1)
        variables == Findings("variable", nb.cells, 1)
        functions == Findings("function", nb.cells, 1)
        classes == Findings("class", nb.cells, 1)
    IN  IF imports = << >> /\ variables = << >> /\ functions = << >> /\ classes = << >>
        THEN Return(<< >>, [kind |-> "no_definitions"])
        ELSE Return(<< >>,
                    [kind |-> "symbols", imports |-> imports, variables |-> variables,
                     functions |-> functions, classes |-> classes])

(***************************************************************************)
(* The state machine                                                       *)
(***************************************************************************)

NoCall == [op |-> "none", status |-> "none"]

\* The server processes that may serve the same notebook path
Procs == {"p1", "p2"}

Idle == [pc |-> "idle"]

Init ==
    /\ disk \in InitDocs
    /\ prev = disk
    /\ last = [op |-> "none", args |-> << >>, status |-> "none", saves |-> 0,
               ret |-> [kind |-> "none"]]
    /\ before = NoCall
    /\ steps = 0
    /\ inflight = [p \in Procs |-> Idle]

\* One tool call: the handler runs on the loaded document; the last document it
\* handed to _save_notebook, if any, is what the store holds afterwards.
Call(op, args, outcome) ==
    /\ steps < MaxSteps
    /\ disk' = IF outcome.saved = << >> THEN disk
               ELSE outcome.saved[Len(outcome.saved)]
    /\ prev' = disk
    /\ last' = [op |-> op, args |-> args, status |-> outcome.status,
                saves |-> Len(outcome.saved), ret |-> outcome.ret]
    /\ before' = [op |-> last.op, status |-> last.status]
    /\ steps' = steps + 1
    /\ UNCHANGED inflight

\* Index arguments tried: one below the range, the range, one past the end.
Indices(nb) == (-1)..Len(nb.cells)

\* Insertion positions tried: omitted, one below, the slots, one past the slots.
Positions(nb) == {None} \cup {<<p>> : p \in (-1)..(Len(nb.cells) + 1)}

NewSources == { <<"n">>, <<"a", "b">> }

AddCell ==
    \E ct \in CellTypes, s \in NewSources, p \in Positions(_load_notebook) :
        Call("add_cell", [cell_type |-> ct, source |-> s, position |-> p],
             add_cell(_load_notebook, ct, s, p))

UpdateCell ==
    \E i \in Indices(_load_notebook), s \in NewSources :
        Call("update_cell", [cell_index |-> i, new_source |-> s],
             update_cell(_load_notebook, i, s))

DeleteCell ==
    \E i \in Indices(_load_notebook) :
        Call("delete_cell", [cell_index |-> i], delete_cell(_load_notebook, i))

MoveCell ==
    \E f \in Indices(_load_notebook), t \in Indices(_load_notebook) :
        Call("move_cell", [from_index |-> f, to_index |-> t],
             move_cell(_load_notebook, f, t))

RawValues == { <<"\"", "t", "\"">>, <<"t">>, <<"1">> }

UpdateNotebookMetadata ==
    \E k \in MetaKeys, v \in RawValues :
        Call("update_notebook_metadata", [key |-> k, value |-> v],
             update_notebook_metadata(_load_notebook, k, v))

UpdateCellMetadata ==
    \E i \in Indices(_load_notebook), k \in MetaKeys, v \in RawValues :
        Call("update_cell_metadata", [cell_index |-> i, key |-> k, value |-> v],
             update_cell_metadata(_load_notebook, i, k, v))

DuplicateCell ==
    \E i \in Indices(_load_notebook) :
        Call("duplicate_cell", [cell_index |-> i], duplicate_cell(_load_notebook, i))

ChangeCellType ==
    \E i \in Indices(_load_notebook), t \in CellTypes :
        Call("change_cell_type", [cell_index |-> i, new_type |-> t],
             change_cell_type(_load_notebook, i, t))

ReadCell ==
    \E i \in Indices(_load_notebook) :
        Call("read_cell", [cell_index |-> i], read_cell(_load_notebook, i))

ContextSizes == {-1, 0, 1, 2}

GetCellContext ==
    \E i \in Indices(_load_notebook), r \in ContextSizes :
        Call("get_cell_context", [cell_index |-> i, context_size |-> r],
             get_cell_context(_load_notebook, i, r))

ReadCellOutput ==
    \E i \in Indices(_load_notebook) :
        Call("read_cell_output", [cell_index |-> i], read_cell_output(_load_notebook, i))

Next ==
    \/ AddCell
    \/ UpdateCell
    \/ DeleteCell
    \/ MoveCell
    \/ UpdateNotebookMetadata
    \/ UpdateCellMetadata
    \/ DuplicateCell
    \/ ChangeCellType
    \/ ReadCell
    \/ GetCellContext
    \/ ReadCellOutput

Spec == Init /\ [][Next]_vars

(***************************************************************************)
(* The text engine's state machine: search, replace, update and read on    *)
(* the same stored document                                                *)
(***************************************************************************)

Patterns == { <<"a">>, <<"a", ".", "b">>, <<"(">>, << >> }

Replacements == { <<"x">>, <<"\\", "\\">>, <<"\\", "1">> }

SearchNotebook ==
    \E p \in Patterns, use_regex \in BOOLEAN, case_sensitive \in BOOLEAN :
        Call("search_notebook",
             [pattern |-> p, use_regex |-> use_regex, case_sensitive |-> case_sensitive],
             search_notebook(_load_notebook, p, use_regex, case_sensitive))

ReplaceInNotebook ==
    \E p \in Patterns, r \in Replacements, use_regex \in BOOLEAN,
       case_sensitive \in BOOLEAN, preview_only \in BOOLEAN :
        Call("replace_in_notebook",
             [pattern |-> p, replacement |-> r, use_regex |-> use_regex,
              case_sensitive |-> case_sensitive, preview_only |-> preview_only],
             replace_in_notebook(_load_notebook, p, r, use_regex, case_sensitive,
                                 preview_only))

NextText ==
    \/ SearchNotebook
    \/ ReplaceInNotebook
    \/ UpdateCell
    \/ ReadCell

SpecText == Init /\ [][NextText]_vars

(***************************************************************************)
(* The context reader's state machine: get_cell_context and delete_cell on  *)
(* documents of up to five cells                                           *)
(***************************************************************************)

CellD == [cell_type |-> "markdown", source |-> <<"b">>, metadata |-> EmptyMeta]

CellE ==
    [cell_type |-> "code", source |-> <<"x">>, metadata |-> EmptyMeta,
     outputs |-> <<O_stream>>, execution_count |-> <<2>>]

ContextDocs ==
    { Notebook(<<CellA>>),
      Notebook(<<CellA, CellB, CellC, CellD, CellE>>) }

InitContext ==
    /\ disk \in ContextDocs
    /\ prev = disk
    /\ last = [op |-> "none", args |-> << >>, status |-> "none", saves |-> 0,
               ret |-> [kind |-> "none"]]
    /\ before = NoCall
    /\ steps = 0
    /\ inflight = [p \in Procs |-> Idle]

NextContext ==
    \/ GetCellContext
    \/ DeleteCell

SpecContext == InitContext /\ [][NextContext]_vars

\* Radii from far below zero to far beyond the document
Radii == {-7, -2, -1, 0, 1, 2, 7}

GetCellContextOfRadius ==
    \E i \in Indices(_load_notebook), r \in Radii :
        Call("get_cell_context", [cell_index |-> i, context_size |-> r],
             get_cell_context(_load_notebook, i, r))

NextRadius ==
    \/ GetCellContextOfRadius
    \/ DeleteCell

SpecRadius == InitContext /\ [][NextRadius]_vars

(***************************************************************************)
(* The editing state machine: every tool that saves                        *)
(***************************************************************************)

\* replace_in_notebook called to apply a case-sensitive regular expression
ReplaceApplied ==
    \E p \in Patterns, r \in Replacements :
        Call("replace_in_notebook",
             [pattern |-> p, replacement |-> r, use_regex |-> TRUE,
              case_sensitive |-> TRUE, preview_only |-> FALSE],
             replace_in_notebook(_load_notebook, p, r, TRUE, TRUE, FALSE))

NextEdit ==
    \/ AddCell
    \/ UpdateCell
    \/ DeleteCell
    \/ MoveCell
    \/ UpdateNotebookMetadata
    \/ UpdateCellMetadata
    \/ DuplicateCell
    \/ ChangeCellType
    \/ ReplaceApplied

SpecEdit == Init /\ [][NextEdit]_vars

(***************************************************************************)
(* The symbol reader's state machine: get_notebook_variables on documents   *)
(* whose cells hold several lines, while cells are retyped, moved and      *)
(* deleted                                                                 *)
(***************************************************************************)

ExampleSource ==
    <<"i", "m", "p", "o", "r", "t", " ", "o", "s", "\n", "d", "e", "f",
      " ", "f", "o", "o", "(", ")", ":", "\n", " ", " ", " ", " ", "p",
      "a", "s", "s", "\n", "c", "l", "a", "s", "s", " ", "B", "a", "r",
      ":", "\n", " ", " ", " ", " ", "p", "a", "s", "s", "\n", "x", " ",
      "=", " ", "5", "\n", "_", "y", " ", "=", " ", "6">>

OtherSource ==
    <<"f", "r", "o", "m", " ", "a", ".", "b", " ", "i", "m", "p", "o", "r",
      "t", " ", "c", "\n", " ", " ", "z", " ", "=", " ", "1", "\n", "c",
      "l", "a", "s", "s", " ", "C", "(", "B", ")", ":", "\n", "d", "e",
      "f", " ", " ", "g", " ", "(", "x", ")", ":", "\n", "y", "=", "2">>

PlainSource ==
    <<" ", " ", " ", " ", "p", "a", "s", "s">>

NoteSource ==
    <<"i", "m", "p", "o", "r", "t", " ", "o", "s", "\n", "x", " ", "=",
      " ", "5">>
SymbolDocs ==
    { Notebook(<<new_code_cell(ExampleSource), new_markdown_cell(NoteSource)>>),
      Notebook(<<new_markdown_cell(NoteSource), new_code_cell(OtherSource),
                 new_code_cell(ExampleSource)>>),
      Notebook(<<new_code_cell(PlainSource)>>) }

InitSymbols ==
    /\ disk \in SymbolDocs
    /\ prev = disk
    /\ last = [op |-> "none", args |-> << >>, status |-> "none", saves |-> 0,
               ret |-> [kind |-> "none"]]
    /\ before = NoCall
    /\ steps = 0
    /\ inflight = [p \in Procs |-> Idle]

GetNotebookVariables ==
    Call("get_notebook_variables", << >>, get_notebook_variables(_load_notebook))

NextSymbols ==
    \/ GetNotebookVariables
    \/ ChangeCellType
    \/ MoveCell
    \/ DeleteCell

SpecSymbols == InitSymbols /\ [][NextSymbols]_vars

(***************************************************************************)
(* The readers' state machine: the six tools that only read, between calls  *)
(* that change the stored document                                          *)
(***************************************************************************)

ReadNotebook ==
    Call("read_notebook", << >>, read_notebook(_load_notebook))

NextRead ==
    \/ ReadNotebook
    \/ ReadCell
    \/ SearchNotebook
    \/ GetCellContext
    \/ GetNotebookVariables
    \/ ReadCellOutput
    \/ UpdateCell
    \/ DeleteCell

SpecRead == Init /\ [][NextRead]_vars

(***************************************************************************)
(* Two server processes on one notebook path: a call loads the document,   *)
(* works on its own copy and saves it, and the other process may load or   *)
(* save in between.                                                        *)
(***************************************************************************)

\* The handler a call runs, on the document nb it loaded
Handle(op, args, nb) ==
    CASE op = "update_cell"    -> update_cell(nb, args.cell_index, args.new_source)
      [] op = "delete_cell"    -> delete_cell(nb, args.cell_index)
      [] op = "duplicate_cell" -> duplicate_cell(nb, args.cell_index)

\* nb = _load_notebook(path), the first statement of a handler: from then on
\* the call works on nb, whatever is stored meanwhile
Begin(p, op, args) ==
    /\ inflight[p].pc # "loaded"
    /\ steps + Cardinality({q \in Procs : inflight[q].pc = "loaded"}) < MaxSteps
    /\ inflight' = [inflight EXCEPT ![p] =
                        [pc |-> "loaded", op |-> op, args |-> args,
                         nb |-> _load_notebook, loaded |-> steps]]
    /\ UNCHANGED <<disk, prev, last, before, steps>>

\* The document a call that has loaded validates, changes and saves
SnapshotReloaded(p) == disk
Snapshot(p) == inflight[p].nb

\* The rest of the handler: validation, the change, _save_notebook(nb, path)
Finish(p) ==
    /\ inflight[p].pc = "loaded"
    /\ LET c       == inflight[p]
           outcome == Handle(c.op, c.args, Snapshot(p))
       IN  /\ disk' = IF outcome.saved = << >> THEN disk
                      ELSE outcome.saved[Len(outcome.saved)]
           /\ prev' = disk
           /\ last' = [op |-> c.op, args |-> c.args, status |-> outcome.status,
                       saves |-> Len(outcome.saved), ret |-> outcome.ret]
           /\ before' = [op |-> last.op, status |-> last.status]
           /\ steps' = steps + 1
           /\ inflight' = [inflight EXCEPT ![p] =
                               [pc |-> "done", op |-> c.op, args |-> c.args,
                                nb |-> c.nb, loaded |-> c.loaded,
                                finished |-> steps + 1,
                                status |-> outcome.status,
                                saves |-> Len(outcome.saved)]]

BeginUpdateCell ==
    \E p \in Procs, i \in Indices(_load_notebook), s \in NewSources :
        Begin(p, "update_cell", [cell_index |-> i, new_source |-> s])

BeginDeleteCell ==
    \E p \in Procs, i \in Indices(_load_notebook) :
        Begin(p, "delete_cell", [cell_index |-> i])

BeginDuplicateCell ==
    \E p \in Procs, i \in Indices(_load_notebook) :
        Begin(p, "duplicate_cell", [cell_index |-> i])

FinishCall == \E p \in Procs : Finish(p)

NextRace ==
    \/ BeginUpdateCell
    \/ BeginDeleteCell
    \/ BeginDuplicateCell
    \/ FinishCall

SpecRace == Init /\ [][NextRace]_vars

(***************************************************************************)
(* Properties.  Each is a statement about the last call: prev is the       *)
(* stored document it loaded, disk the stored document it left.            *)
(***************************************************************************)

Returned == last.status = "ok"

Rejected == last.status = ValueError

\* An index outside [0, n-1]
OutOfRange(n, i) == i < 0 \/ i >= n

\* seq without the element at 0-based index i
Without(seq, i) == SubSeq(seq, 1, i) \o SubSeq(seq, i + 2, Len(seq))

\* The outputs a cell carries (a cell without the key carries none)
OutputsOf(cell) == IF HasOutputs(cell) THEN cell.outputs ELSE << >>

IndexedMutators ==
    {"add_cell", "update_cell", "delete_cell", "move_cell", "update_cell_metadata",
     "duplicate_cell", "change_cell_type"}

\* Whether the last call, one of IndexedMutators, had an index or position out
\* of bounds for the document it loaded
LastOutOfBounds ==
    LET n == Len(prev.cells)
    IN  CASE last.op = "add_cell" ->
                /\ last.args.position # None
                /\ (last.args.position[1] < 0 \/ last.args.position[1] > n)
          [] last.op = "move_cell" ->
                OutOfRange(n, last.args.from_index) \/ OutOfRange(n, last.args.to_index)
          [] OTHER -> OutOfRange(n, last.args.cell_index)

\* C1: a call of add_cell, update_cell, delete_cell, move_cell,
\* update_cell_metadata, duplicate_cell or change_cell_type whose index or
\* position is out of bounds fails with an error, saves nothing and leaves the
\* stored document exactly as it was.
C1_OutOfBoundsLeavesDocument ==
    (last.op \in IndexedMutators /\ LastOutOfBounds)
        => (Rejected /\ last.saves = 0 /\ disk = prev)

\* C1's case: move_cell with a valid from_index and to_index = cell count, on a
\* document with cells, was refused.
C1_Witness ==
    /\ last.op = "move_cell"
    /\ Len(prev.cells) = 3
    /\ last.args.from_index = 0
    /\ last.args.to_index = 3
    /\ Rejected
    /\ disk = prev

\* C2: move_cell(from, to) with both indices valid stores the sequence got by
\* removing the cell at from and inserting it at position to of the shortened
\* sequence: same count, the moved cell unchanged at index to, the other cells
\* in their old relative order; [A,B,C] with Move(0,2) becomes [B,C,A].
C2_MoveIsRemoveThenInsert ==
    (/\ last.op = "move_cell"
     /\ ~OutOfRange(Len(prev.cells), last.args.from_index)
     /\ ~OutOfRange(Len(prev.cells), last.args.to_index))
        => /\ Returned
           /\ last.saves = 1
           /\ Len(disk.cells) = Len(prev.cells)
           /\ At(disk.cells, last.args.to_index) = At(prev.cells, last.args.from_index)
           /\ Without(disk.cells, last.args.to_index)
                = Without(prev.cells, last.args.from_index)
           /\ disk.metadata = prev.metadata
           /\ (prev.cells = <<CellA, CellB, CellC>>
               /\ last.args.from_index = 0 /\ last.args.to_index = 2)
                  => disk.cells = <<CellB, CellC, CellA>>

\* C2's case: Move(0,2) on [A,B,C] gave [B,C,A].
C2_Witness ==
    /\ last.op = "move_cell"
    /\ Returned
    /\ prev.cells = <<CellA, CellB, CellC>>
    /\ last.args.from_index = 0
    /\ last.args.to_index = 2
    /\ disk.cells = <<CellB, CellC, CellA>>

\* The compiled pattern of the last search or replace call
LastRegex ==
    re_compile(IF last.args.use_regex THEN last.args.pattern
               ELSE re_escape(last.args.pattern),
               ~last.args.case_sensitive)

\* text with each of the given matches, rightmost first, replaced by expanded
RECURSIVE Spliced(_, _, _)
Spliced(text, matches, expanded) ==
    IF matches = << >> THEN text
    ELSE LET m == matches[Len(matches)]
         IN  Spliced(SubSeq(text, 1, m.start) \o expanded
                        \o SubSeq(text, m.end + 1, Len(text)),
                     SubSeq(matches, 1, Len(matches) - 1), expanded)

\* The number of matches of the last call's pattern in the cell at 1-based j
\* of the loaded document
MatchCount(j) == Len(finditer(LastRegex, prev.cells[j].source))

\* C3: replace_in_notebook with previewOnly=true changes no cell's stored
\* source and saves nothing, whatever the pattern, the replacement and the
\* document; read_cell of any index returns the source it returned before.
C3_PreviewChangesNothing ==
    (last.op = "replace_in_notebook" /\ last.args.preview_only)
        => /\ last.saves = 0
           /\ disk = prev
           /\ \A i \in Indices(prev) : read_cell(disk, i) = read_cell(prev, i)

\* C3's case: a preview that reported matches in at least two cells.
C3_Witness ==
    /\ last.op = "replace_in_notebook"
    /\ last.args.preview_only
    /\ Returned
    /\ last.ret.kind = "preview"
    /\ Len(last.ret.changes) >= 2
    /\ last.ret.total > Len(last.ret.changes)
    /\ disk = prev

\* C4: replace_in_notebook with previewOnly=false, for a pattern that compiles,
\* sets the source of exactly the cells with at least one match to the text
\* with every match replaced, and leaves every other cell, and all types,
\* metadata, outputs and the cell order, unchanged; the reported total is the
\* sum of the per-cell match counts; the document is saved exactly once, and
\* not at all when the total is zero.
C4_ReplaceChangesExactlyMatchingCells ==
    (/\ last.op = "replace_in_notebook"
     /\ ~last.args.preview_only
     /\ LastRegex.ok)
        => LET n     == Len(prev.cells)
               total == SumSeq([j \in 1..n |-> MatchCount(j)])
               repl  == parse_template(last.args.replacement).text
           IN  /\ Len(disk.cells) = n
               /\ disk.metadata = prev.metadata
               /\ \A j \in 1..n :
                    IF MatchCount(j) > 0
                    THEN disk.cells[j] =
                            [prev.cells[j] EXCEPT !.source =
                                Spliced(prev.cells[j].source,
                                        finditer(LastRegex, prev.cells[j].source), repl)]
                    ELSE disk.cells[j] = prev.cells[j]
               /\ IF total = 0
                  THEN last.saves = 0 /\ last.ret.kind = "no_targets"
                  ELSE /\ last.saves = 1
                       /\ last.ret.kind = "replaced"
                       /\ last.ret.total = total
                       /\ last.ret.total
                            = SumSeq([k \in 1..Len(last.ret.changes) |->
                                        last.ret.changes[k].count])
                       /\ \A j \in 1..n :
                            (MatchCount(j) > 0)
                                <=> \E k \in 1..Len(last.ret.changes) :
                                        /\ last.ret.changes[k].cell = j - 1
                                        /\ last.ret.changes[k].count = MatchCount(j)

\* C5: duplicate_cell(i) for a valid i adds exactly one cell, at index i+1;
\* cells 0..i stay, the cells after i move up by one; the new cell has the
\* type, source and metadata of cell i and no outputs, whatever outputs cell i
\* has.
C5_DuplicateInsertsCopyWithoutOutputs ==
    (last.op = "duplicate_cell" /\ ~OutOfRange(Len(prev.cells), last.args.cell_index))
        => LET i    == last.args.cell_index
               orig == At(prev.cells, i)
               new  == At(disk.cells, i + 1)
           IN  /\ Returned
               /\ last.saves = 1
               /\ Len(disk.cells) = Len(prev.cells) + 1
               /\ Without(disk.cells, i + 1) = prev.cells
               /\ new.cell_type = orig.cell_type
               /\ new.source = orig.source
               /\ new.metadata = orig.metadata
               /\ OutputsOf(new) = << >>
               /\ (new.cell_type = "code") => (HasOutputs(new) /\ new.outputs = << >>)
               /\ disk.metadata = prev.metadata

\* C5's case: the duplicate of a code cell that has outputs and metadata, with
\* cells after it.
C5_Witness ==
    /\ last.op = "duplicate_cell"
    /\ Returned
    /\ Len(prev.cells) = 3
    /\ last.args.cell_index = 0
    /\ At(prev.cells, 0).outputs # << >>
    /\ At(prev.cells, 0).metadata # EmptyMeta
    /\ At(disk.cells, 1).outputs = << >>
    /\ At(disk.cells, 1).metadata = At(prev.cells, 0).metadata
    /\ At(disk.cells, 2) = At(prev.cells, 1)

\* C6: change_cell_type on a valid index to a type other than the cell's puts
\* there a cell of the new type with the same source and the same metadata
\* entries; from code to markdown the cell has no outputs and no
\* execution_count, from markdown to code it has empty outputs and no
\* execution count; the count and every other cell are unchanged.
C6_ChangeTypeKeepsSourceAndMetadata ==
    (/\ last.op = "change_cell_type"
     /\ ~OutOfRange(Len(prev.cells), last.args.cell_index)
     /\ At(prev.cells, last.args.cell_index).cell_type # last.args.new_type)
        => LET i   == last.args.cell_index
               old == At(prev.cells, i)
               new == At(disk.cells, i)
           IN  /\ Returned
               /\ last.saves = 1
               /\ Len(disk.cells) = Len(prev.cells)
               /\ \A j \in 1..Len(prev.cells) : j # i + 1 => disk.cells[j] = prev.cells[j]
               /\ new.cell_type = last.args.new_type
               /\ new.source = old.source
               /\ new.metadata = old.metadata
               /\ (last.args.new_type = "markdown")
                    => (~HasOutputs(new) /\ ~HasExecutionCount(new))
               /\ (last.args.new_type = "code")
                    => /\ HasOutputs(new) /\ new.outputs = << >>
                       /\ HasExecutionCount(new) /\ new.execution_count = None
               /\ disk.metadata = prev.metadata

\* C6's case: a code cell with outputs, an execution count and metadata became
\* markdown.
C6_Witness ==
    /\ last.op = "change_cell_type"
    /\ Returned
    /\ last.args.new_type = "markdown"
    /\ Len(prev.cells) = 3
    /\ At(prev.cells, last.args.cell_index).cell_type = "code"
    /\ At(prev.cells, last.args.cell_index).outputs # << >>
    /\ At(prev.cells, last.args.cell_index).execution_count # None
    /\ At(prev.cells, last.args.cell_index).metadata # EmptyMeta
    /\ At(disk.cells, last.args.cell_index).cell_type = "markdown"

\* C7: change_cell_type(i, t) with t the type cell i already has is a no-op:
\* nothing is saved, the count and every cell's content, metadata and outputs
\* are unchanged, and the response is the 'already this type' notice.
C7_SameTypeIsNoOp ==
    (/\ last.op = "change_cell_type"
     /\ ~OutOfRange(Len(prev.cells), last.args.cell_index)
     /\ At(prev.cells, last.args.cell_index).cell_type = last.args.new_type)
        => /\ Returned
           /\ last.saves = 0
           /\ disk = prev
           /\ last.ret.kind = "already_type"

\* C7's case: change_cell_type to "code" on a code cell that has outputs.
C7_Witness ==
    /\ last.op = "change_cell_type"
    /\ Returned
    /\ last.args.new_type = "code"
    /\ At(prev.cells, last.args.cell_index).cell_type = "code"
    /\ At(prev.cells, last.args.cell_index).outputs # << >>
    /\ last.ret.kind = "already_type"

\* C8: after update_cell(i, s) with a valid i, read_cell(i) returns source
\* exactly s; the cell's type, metadata and outputs, every other cell, the
\* order and the count are what they were.
C8_UpdateSetsOnlySource ==
    (last.op = "update_cell" /\ ~OutOfRange(Len(prev.cells), last.args.cell_index))
        => LET i   == last.args.cell_index
               old == At(prev.cells, i)
               new == At(disk.cells, i)
           IN  /\ Returned
               /\ last.saves = 1
               /\ read_cell(disk, i).status = "ok"
               /\ read_cell(disk, i).ret.source = last.args.new_source
               /\ read_cell(disk, i).ret.cell_type = old.cell_type
               /\ read_cell(disk, i).ret.metadata = old.metadata
               /\ DOMAIN new = DOMAIN old
               /\ \A f \in DOMAIN old \ {"source"} : new[f] = old[f]
               /\ Len(disk.cells) = Len(prev.cells)
               /\ \A j \in 1..Len(prev.cells) : j # i + 1 => disk.cells[j] = prev.cells[j]
               /\ disk.metadata = prev.metadata

\* C8's case: the source of a code cell with outputs and metadata, in a
\* document with other cells, was replaced by a different text.
C8_Witness ==
    /\ last.op = "update_cell"
    /\ Returned
    /\ Len(prev.cells) = 3
    /\ last.args.cell_index = 0
    /\ At(prev.cells, 0).source # last.args.new_source
    /\ At(disk.cells, 0).source = last.args.new_source
    /\ At(disk.cells, 0).outputs = <<O_stream, O_error>>
    /\ At(disk.cells, 0).metadata # EmptyMeta

\* C9: add_cell accepted at resolved position p, followed by delete_cell(p),
\* restores the document: the deletion is accepted and the stored document is
\* again the one add_cell loaded.
C9_AddThenDeleteRestores ==
    [][ (/\ last.op = "add_cell"
         /\ last.status = "ok"
         /\ last'.op = "delete_cell"
         /\ steps' = steps + 1
         /\ last'.args.cell_index = last.ret.position)
            => (last'.status = "ok" /\ disk' = prev) ]_vars

\* C9's case: a cell was added to a three-cell document by an accepted
\* add_cell and the delete_cell after it removed that very cell.
C9_Witness ==
    /\ before.op = "add_cell"
    /\ before.status = "ok"
    /\ last.op = "delete_cell"
    /\ Returned
    /\ steps = 2
    /\ Len(prev.cells) = 4
    /\ last.ret.deleted \in NewSources
    /\ disk \in InitDocs
    /\ At(prev.cells, last.args.cell_index).source \in NewSources
    /\ last.args.cell_index \in {0, 1, 2}

CellAddressing ==
    {"read_cell", "update_cell", "delete_cell", "move_cell", "update_cell_metadata",
     "get_cell_context", "read_cell_output", "duplicate_cell", "change_cell_type"}

\* C10: read_cell, update_cell, delete_cell, move_cell (for from and for to),
\* update_cell_metadata, get_cell_context, read_cell_output, duplicate_cell and
\* change_cell_type are refused with the index error exactly when an index is
\* < 0 or >= the cell count, and a refused call is not applied to any other
\* cell; so on an empty document all are refused, and move_cell refuses
\* to = cell count.
C10_RefusedExactlyWhenOutOfRange ==
    (last.op \in CellAddressing)
        => /\ Rejected <=> LastOutOfBounds
           /\ Returned <=> ~LastOutOfBounds
           /\ Rejected => (disk = prev /\ last.saves = 0)
           /\ (Len(prev.cells) = 0) => Rejected
           /\ (last.op = "move_cell" /\ last.args.to_index = Len(prev.cells)) => Rejected

\* C10's case: on a three-cell document move_cell with the last valid index
\* as from and to = 3 was refused, after a cell-addressing call that was
\* accepted.
C10_Witness ==
    /\ before.op \in CellAddressing
    /\ before.status = "ok"
    /\ last.op = "move_cell"
    /\ Len(prev.cells) = 3
    /\ last.args.from_index = 2
    /\ last.args.to_index = 3
    /\ Rejected

\* C11: add_cell accepts a position p exactly when 0 <= p <= cell count and
\* takes an omitted position as the cell count; on acceptance the new cell, of
\* the requested type with the given source, empty metadata and (if code) empty
\* outputs, is at index p, the cells formerly at indices >= p are one higher,
\* the cells below p are unchanged, and the count grows by exactly 1.
C11_AddCellInsertsAtPosition ==
    (last.op = "add_cell")
        => LET n        == Len(prev.cells)
               pos      == last.args.position
               accepted == pos = None \/ (0 <= pos[1] /\ pos[1] <= n)
               p        == IF pos = None THEN n ELSE pos[1]
               new      == At(disk.cells, p)
           IN  /\ Returned <=> accepted
               /\ Rejected <=> ~accepted
               /\ accepted =>
                    /\ last.saves = 1
                    /\ last.ret.position = p
                    /\ Len(disk.cells) = n + 1
                    /\ last.ret.count = n + 1
                    /\ \A j \in 1..p : disk.cells[j] = prev.cells[j]
                    /\ \A j \in (p + 1)..n : disk.cells[j + 1] = prev.cells[j]
                    /\ new.cell_type = last.args.cell_type
                    /\ new.source = last.args.source
                    /\ new.metadata = EmptyMeta
                    /\ (new.cell_type = "code") => (HasOutputs(new) /\ new.outputs = << >>)
                    /\ (new.cell_type = "markdown") => ~HasOutputs(new)
                    /\ disk.metadata = prev.metadata

\* C11's case: a code cell was added at the one-past-end position of a document
\* that an earlier add_cell in the middle had grown to four cells.
C11_Witness ==
    /\ before.op = "add_cell"
    /\ before.status = "ok"
    /\ last.op = "add_cell"
    /\ Returned
    /\ Len(prev.cells) = 4
    /\ prev.cells[4] = CellC
    /\ last.args.position = <<4>>
    /\ last.args.cell_type = "code"
    /\ At(disk.cells, 4).source = last.args.source
    /\ At(disk.cells, 3) = CellC

\* The 0-based indices i of a document of n cells with lo <= i <= hi, ascending
RECURSIVE Ascending(_, _)
Ascending(lo, hi) == IF lo > hi THEN << >> ELSE <<lo>> \o Ascending(lo + 1, hi)

\* C12: get_cell_context(target, radius) on n cells with a valid target returns
\* the cells with indices in [max(0, target - radius), min(n, target + radius
\* + 1)), ascending, clipped at the document bounds and never wrapped or
\* padded, with is_target true for index target only; on 5 cells (2,1) gives
\* [1,2,3] and (0,2) gives [0,1,2].  Nothing is saved.
C12_ContextWindowIsClipped ==
    (last.op = "get_cell_context" /\ ~OutOfRange(Len(prev.cells), last.args.cell_index))
        => LET n      == Len(prev.cells)
               t      == last.args.cell_index
               r      == last.args.context_size
               lo     == IF t - r < 0 THEN 0 ELSE t - r
               hi     == IF t + r > n - 1 THEN n - 1 ELSE t + r
               window == Ascending(lo, hi)
               cells  == last.ret.cells
           IN  /\ Returned
               /\ last.saves = 0
               /\ disk = prev
               /\ last.ret.total_cells = n
               /\ Len(cells) = Len(window)
               /\ \A k \in 1..Len(cells) :
                    /\ cells[k].index = window[k]
                    /\ cells[k].index \in 0..(n - 1)
                    /\ cells[k].source = At(prev.cells, window[k]).source
                    /\ cells[k].cell_type = At(prev.cells, window[k]).cell_type
                    /\ cells[k].is_target <=> (window[k] = t)
               /\ (n = 5 /\ t = 2 /\ r = 1)
                    => [k \in 1..Len(cells) |-> cells[k].index] = <<1, 2, 3>>
               /\ (n = 5 /\ t = 0 /\ r = 2)
                    => [k \in 1..Len(cells) |-> cells[k].index] = <<0, 1, 2>>

\* C12's case: on five cells, target 4 with radius 2 gave the clipped window
\* [2,3,4] with the target marked.
C12_Witness ==
    /\ last.op = "get_cell_context"
    /\ Returned
    /\ Len(prev.cells) = 5
    /\ last.args.cell_index = 4
    /\ last.args.context_size = 2
    /\ Len(last.ret.cells) = 3
    /\ last.ret.cells[1].index = 2
    /\ last.ret.cells[3].is_target

TextTools == {"search_notebook", "replace_in_notebook"}

\* C13: when the pattern does not compile, search_notebook and
\* replace_in_notebook (previewOnly true or false) return the pattern-error
\* notice as their result instead of raising, change no cell and save nothing.
C13_PatternErrorIsReturned ==
    (last.op \in TextTools /\ ~LastRegex.ok)
        => /\ Returned
           /\ last.ret.kind = "pattern_error"
           /\ last.saves = 0
           /\ disk = prev

\* C13's case: a replace that was to be applied, with the pattern "(" taken as
\* a regular expression, on a three-cell document, after an update.
C13_Witness ==
    /\ before.op = "update_cell"
    /\ before.status = "ok"
    /\ last.op = "replace_in_notebook"
    /\ last.args.pattern = <<"(">>
    /\ last.args.use_regex
    /\ ~last.args.preview_only
    /\ Len(prev.cells) = 3
    /\ last.ret.kind = "pattern_error"
    /\ disk = prev

MetadataTools == {"update_notebook_metadata", "update_cell_metadata"}

\* What a raw value is stored as: the JSON string "t" and the unquoted text t
\* are both the string t, the text 1 is the number 1, any other text is itself
StoredFor(value) ==
    IF value = <<"\"", "t", "\"">> THEN [t |-> "str", v |-> <<"t">>]
    ELSE IF value = <<"1">> THEN [t |-> "num", v |-> <<"1">>]
    ELSE [t |-> "str", v |-> value]

\* C14: update_notebook_metadata and update_cell_metadata (on a valid index)
\* store under the key the JSON parse of the raw value when it parses and the
\* raw text when it does not, without error, overwriting the key's old value
\* and changing no other key, no cell source and no cell order; the raw values
\* '"t"' and 't' give the same stored value, the string t.
C14_MetadataStoresParseOrRawText ==
    (/\ last.op \in MetadataTools
     /\ (last.op = "update_cell_metadata")
            => ~OutOfRange(Len(prev.cells), last.args.cell_index))
        => LET key    == last.args.key
               stored == StoredFor(last.args.value)
           IN  /\ Returned
               /\ last.saves = 1
               /\ Len(disk.cells) = Len(prev.cells)
               /\ (last.args.value \in {<<"\"", "t", "\"">>, <<"t">>})
                    => stored = [t |-> "str", v |-> <<"t">>]
               /\ IF last.op = "update_notebook_metadata"
                  THEN /\ disk.metadata[key] = stored
                       /\ \A k \in MetaKeys \ {key} : disk.metadata[k] = prev.metadata[k]
                       /\ disk.cells = prev.cells
                  ELSE LET i == last.args.cell_index
                       IN  /\ disk.metadata = prev.metadata
                           /\ At(disk.cells, i).metadata[key] = stored
                           /\ \A k \in MetaKeys \ {key} :
                                At(disk.cells, i).metadata[k] = At(prev.cells, i).metadata[k]
                           /\ \A f \in DOMAIN At(prev.cells, i) \ {"metadata"} :
                                At(disk.cells, i)[f] = At(prev.cells, i)[f]
                           /\ DOMAIN At(disk.cells, i) = DOMAIN At(prev.cells, i)
                           /\ \A j \in 1..Len(prev.cells) :
                                j # i + 1 => disk.cells[j] = prev.cells[j]

\* C14's case: the quoted raw value "t" was stored over a number that an
\* earlier call had put under the key, as the string t.
C14_Witness ==
    /\ before.op = "update_notebook_metadata"
    /\ last.op = "update_notebook_metadata"
    /\ Returned
    /\ last.args.value = <<"\"", "t", "\"">>
    /\ prev.metadata[last.args.key].t = "num"
    /\ disk.metadata[last.args.key] = [t |-> "str", v |-> <<"t">>]
    /\ \E k \in MetaKeys : disk.metadata[k] = Absent

\* Both processes have completed a call that saved, each loaded before the
\* other saved, and nothing has been saved since
BothLoadedBeforeEitherSaved ==
    /\ \A p \in Procs : inflight[p].pc = "done" /\ inflight[p].saves > 0
    /\ \A p, q \in Procs : inflight[p].loaded < inflight[q].finished
    /\ \E p \in Procs : inflight[p].finished = steps

\* C15: when two mutating calls on the same stored document interleave so that
\* both load before either saves, neither reports an error, and once both have
\* saved the stored document is exactly what the call that saved last made of
\* the document it had loaded: the change of the call that saved first is
\* lost.
C15_LastWriteWins ==
    BothLoadedBeforeEitherSaved
        => /\ \A p \in Procs : inflight[p].status = "ok" /\ inflight[p].saves = 1
           /\ \A w \in Procs :
                (inflight[w].finished = steps)
                    => LET c == inflight[w]
                           i == c.args.cell_index
                       IN  /\ disk.metadata = c.nb.metadata
                           /\ c.op = "update_cell" =>
                                disk.cells =
                                    [c.nb.cells EXCEPT ![i + 1].source = c.args.new_source]
                           /\ c.op = "delete_cell" =>
                                disk.cells = Without(c.nb.cells, i)
                           /\ c.op = "duplicate_cell" =>
                                /\ Len(disk.cells) = Len(c.nb.cells) + 1
                                /\ Without(disk.cells, i + 1) = c.nb.cells
                                /\ At(disk.cells, i + 1).source = At(c.nb.cells, i).source
                                /\ At(disk.cells, i + 1).cell_type
                                        = At(c.nb.cells, i).cell_type

\* C15's case: two update_cell calls on different cells of a three-cell
\* document both loaded it before either saved; after both saved, the cell
\* the first saver wrote has its old source again.
C15_Witness ==
    /\ BothLoadedBeforeEitherSaved
    /\ \A p \in Procs : inflight[p].op = "update_cell" /\ inflight[p].saves = 1
    /\ inflight["p1"].finished = 1
    /\ inflight["p2"].finished = 2
    /\ inflight["p1"].args.cell_index = 0
    /\ inflight["p2"].args.cell_index = 1
    /\ inflight["p1"].nb.cells = <<CellA, CellB, CellC>>
    /\ inflight["p2"].nb = inflight["p1"].nb
    /\ At(prev.cells, 0).source = inflight["p1"].args.new_source
    /\ At(disk.cells, 0) = CellA
    /\ At(disk.cells, 1).source = inflight["p2"].args.new_source

\* Where the cell at 0-based index j of the loaded document is in the stored
\* document after the last call; -1 when the call removed it
NewIndexOf(j) ==
    IF last.status # "ok" \/ last.saves = 0 THEN j
    ELSE CASE last.op = "add_cell" ->
                IF j >= last.ret.position THEN j + 1 ELSE j
           [] last.op = "delete_cell" ->
                IF j = last.args.cell_index THEN -1
                ELSE IF j > last.args.cell_index THEN j - 1 ELSE j
           [] last.op = "move_cell" ->
                IF j = last.args.from_index THEN last.args.to_index
                ELSE LET s == IF j > last.args.from_index THEN j - 1 ELSE j
                     IN  IF s >= last.args.to_index THEN s + 1 ELSE s
           [] last.op = "duplicate_cell" ->
                IF j > last.args.cell_index THEN j + 1 ELSE j
           [] OTHER -> j

\* C16: no call alters an output record: after any call, every cell that was
\* there before and is still there with the same type has the outputs it had;
\* a cell's type differs only after change_cell_type on that cell, which
\* leaves it without outputs; and the cell duplicate_cell adds has no outputs.
C16_OutputsNeverAltered ==
    /\ \A j \in 0..(Len(prev.cells) - 1) :
            LET k == NewIndexOf(j)
            IN  k # -1 =>
                    LET old == At(prev.cells, j)
                        new == At(disk.cells, k)
                    IN  /\ k \in 0..(Len(disk.cells) - 1)
                        /\ (new.cell_type = old.cell_type)
                                => /\ HasOutputs(new) <=> HasOutputs(old)
                                   /\ OutputsOf(new) = OutputsOf(old)
                        /\ (new.cell_type # old.cell_type)
                                => /\ last.op = "change_cell_type"
                                   /\ last.args.cell_index = j
                                   /\ OutputsOf(new) = << >>
    /\ (last.op = "duplicate_cell" /\ Returned)
            => OutputsOf(At(disk.cells, last.args.cell_index + 1)) = << >>

\* C16's case: a replacement rewrote the source of a code cell that an earlier
\* call had moved, and the cell still has its two output records.
C16_Witness ==
    /\ before.op = "move_cell"
    /\ before.status = "ok"
    /\ last.op = "replace_in_notebook"
    /\ Returned
    /\ last.ret.kind = "replaced"
    /\ \E j \in 2..Len(prev.cells) :
            /\ prev.cells[j] = CellA
            /\ disk.cells[j].source # CellA.source
            /\ disk.cells[j].outputs = <<O_stream, O_error>>

\* Whether pattern occurs in text at 0-based position pos, letter case folded
\* when fold
OccursAt(pattern, text, pos, fold) ==
    /\ pos + Len(pattern) <= Len(text)
    /\ \A k \in 1..Len(pattern) :
            IF fold THEN Lower(text[pos + k]) = Lower(pattern[k])
            ELSE text[pos + k] = pattern[k]

\* The start positions of the non-overlapping occurrences of pattern in text,
\* scanned left to right from pos
RECURSIVE Occurrences(_, _, _, _)
Occurrences(pattern, text, pos, fold) ==
    IF pos > Len(text) THEN << >>
    ELSE IF OccursAt(pattern, text, pos, fold)
    THEN <<pos>> \o Occurrences(pattern, text,
                                 IF pattern = << >> THEN pos + 1 ELSE pos + Len(pattern),
                                 fold)
    ELSE Occurrences(pattern, text, pos + 1, fold)

\* C17: search_notebook with useRegex=false takes every character of the
\* pattern literally: the reported matches are exactly the non-overlapping
\* occurrences of the pattern as a substring (letter case folded when
\* caseSensitive is false), left to right, cells in document order; "a.b"
\* matches only the text "a.b", not "axb".
C17_LiteralSearchFindsSubstrings ==
    (last.op = "search_notebook" /\ ~last.args.use_regex)
        => LET pat  == last.args.pattern
               fold == ~last.args.case_sensitive
               occ  == [j \in 1..Len(prev.cells) |->
                            Occurrences(pat, prev.cells[j].source, 0, fold)]
               hits == SelectSeq([j \in 1..Len(prev.cells) |-> j],
                                 LAMBDA j : occ[j] # << >>)
           IN  /\ Returned
               /\ last.saves = 0
               /\ disk = prev
               /\ last.ret.kind \in {"results", "no_results"}
               /\ (last.ret.kind = "no_results") <=> (hits = << >>)
               /\ (last.ret.kind = "results") =>
                    /\ Len(last.ret.results) = Len(hits)
                    /\ last.ret.total = SumSeq([k \in 1..Len(hits) |-> Len(occ[hits[k]])])
                    /\ \A k \in 1..Len(hits) :
                        LET r    == last.ret.results[k]
                            text == prev.cells[hits[k]].source
                            o    == occ[hits[k]]
                        IN  /\ r.cell = hits[k] - 1
                            /\ r.cell_type = prev.cells[hits[k]].cell_type
                            /\ Len(r.matches) = Len(o)
                            /\ \A m \in 1..Len(o) :
                                /\ r.matches[m].match_text
                                        = SubSeq(text, o[m] + 1, o[m] + Len(pat))
                                /\ r.matches[m].context
                                        = SubSeq(text,
                                                 IF o[m] - ContextWidth < 0 THEN 1
                                                 ELSE o[m] - ContextWidth + 1,
                                                 IF o[m] + Len(pat) + ContextWidth > Len(text)
                                                 THEN Len(text)
                                                 ELSE o[m] + Len(pat) + ContextWidth)

\* C17's case: the literal search for "a.b" in a document with the cell texts
\* "a.b", "axba" and "Aaa" reported one match, in cell 0.
C17_Witness ==
    /\ last.op = "search_notebook"
    /\ ~last.args.use_regex
    /\ last.args.pattern = <<"a", ".", "b">>
    /\ prev.cells = <<CellA, CellB, CellC>>
    /\ last.ret.kind = "results"
    /\ last.ret.total = 1
    /\ Len(last.ret.results) = 1
    /\ last.ret.results[1].cell = 0
    /\ last.ret.results[1].matches[1].match_text = <<"a", ".", "b">>

\* What each source of SymbolDocs holds, line by line: its import lines, the
\* names it assigns at the start of a line, and the functions and classes it
\* defines there
Holds(kind, source) ==
    CASE source = ExampleSource ->
             ( CASE kind = "import"   -> <<SubSeq(ExampleSource, 1, 9)>>
                 [] kind = "variable" -> << <<"x">>, <<"_", "y">> >>
                 [] kind = "function" -> << <<"f", "o", "o">> >>
                 [] kind = "class"    -> << <<"B", "a", "r">> >> )
      [] source = OtherSource ->
             ( CASE kind = "import"   -> <<SubSeq(OtherSource, 1, 17)>>
                 [] kind = "variable" -> << <<"y">> >>
                 [] kind = "function" -> << <<"g">> >>
                 [] kind = "class"    -> << <<"C">> >> )
      [] source = NoteSource ->
             ( CASE kind = "import"   -> <<SubSeq(NoteSource, 1, 9)>>
                 [] kind = "variable" -> << <<"x">> >>
                 [] OTHER -> << >> )
      [] OTHER -> << >>

\* The symbols of one kind the code cells among cells[k..] hold, each with the
\* index of its cell; an assigned name that begins with an underscore is left out
RECURSIVE Owned(_, _, _)
Owned(kind, cells, k) ==
    IF k > Len(cells) THEN << >>
    ELSE LET held == IF cells[k].cell_type = "code"
                     THEN SelectSeq(Holds(kind, cells[k].source),
                                    LAMBDA name : kind # "variable" \/ name[1] # "_")
                     ELSE << >>
         IN  [j \in 1..Len(held) |-> [cell |-> k - 1, text |-> held[j]]]
                 \o Owned(kind, cells, k + 1)

NothingOwned(cells) == \A kind \in SymbolKinds : Owned(kind, cells, 1) = << >>

\* The report shows the imports, functions and classes the code cells hold,
\* each with its cell index
IndexedFindingsReported ==
    LET imports == Owned("import", prev.cells, 1)
        functions == Owned("function", prev.cells, 1)
        classes == Owned("class", prev.cells, 1)
    IN  /\ last.ret.imports =
               [j \in 1..Len(imports) |->
                   [cell |-> imports[j].cell, statement |-> imports[j].text]]
        /\ last.ret.functions =
               [j \in 1..Len(functions) |->
                   [cell |-> functions[j].cell, name |-> functions[j].text]]
        /\ last.ret.classes =
               [j \in 1..Len(classes) |->
                   [cell |-> classes[j].cell, name |-> classes[j].text]]

\* C18 as stated: get_notebook_variables scans only code cells and reports the
\* import lines, the assigned names that do not begin with an underscore, the
\* function names and the class names, each with the owning cell index.  The
\* report gives the variables as names without a cell index, so this fails.
C18_EveryFindingCarriesItsCell ==
    last.op = "get_notebook_variables" =>
        /\ Returned
        /\ last.saves = 0
        /\ disk = prev
        /\ IF NothingOwned(prev.cells) THEN last.ret.kind = "no_definitions"
           ELSE LET variables == Owned("variable", prev.cells, 1)
                IN  /\ last.ret.kind = "symbols"
                    /\ IndexedFindingsReported
                    /\ last.ret.variables =
                           [j \in 1..Len(variables) |->
                               [cell |-> variables[j].cell,
                                name |-> variables[j].text]]

\* C18, amended: get_notebook_variables scans only code cells and reports, in
\* cell order, the import lines, the function names and the class names each
\* with the owning cell index, and the assigned names that do not begin with
\* an underscore as names alone; the example cell gives one import, the
\* function foo, the class Bar and the variable x.
C18_SymbolsOfCodeCellsReported ==
    last.op = "get_notebook_variables" =>
        /\ Returned
        /\ last.saves = 0
        /\ disk = prev
        /\ IF NothingOwned(prev.cells) THEN last.ret.kind = "no_definitions"
           ELSE LET variables == Owned("variable", prev.cells, 1)
                IN  /\ last.ret.kind = "symbols"
                    /\ IndexedFindingsReported
                    /\ last.ret.variables =
                           [j \in 1..Len(variables) |-> [name |-> variables[j].text]]

\* A report on a document whose first cell is a markdown cell holding an
\* import line and whose third cell is the example cell
C18_Witness ==
    /\ last.op = "get_notebook_variables"
    /\ Len(prev.cells) = 3
    /\ prev.cells[1].cell_type = "markdown"
    /\ prev.cells[1].source = NoteSource
    /\ prev.cells[3].cell_type = "code"
    /\ prev.cells[3].source = ExampleSource
    /\ last.ret.kind = "symbols"
    /\ last.ret.functions = << [cell |-> 1, name |-> <<"g">>],
                               [cell |-> 2, name |-> <<"f", "o", "o">>] >>
    /\ last.ret.variables = << [name |-> <<"y">>], [name |-> <<"x">>] >>

\* C19: whatever tools have run, a markdown cell of the stored document has
\* neither an outputs field nor an execution_count field.
C19_MarkdownCellsHaveNoOutputs ==
    \A j \in 1..Len(disk.cells) :
        disk.cells[j].cell_type = "markdown"
            => ~HasOutputs(disk.cells[j]) /\ ~HasExecutionCount(disk.cells[j])

\* C19's case: a code cell with output records and an execution count, in a
\* document an earlier call had already changed, was changed to markdown.
C19_Witness ==
    /\ before.op \in {"duplicate_cell", "move_cell", "update_cell_metadata"}
    /\ before.status = "ok"
    /\ last.op = "change_cell_type"
    /\ Returned
    /\ last.saves = 1
    /\ LET old == At(prev.cells, last.args.cell_index)
           new == At(disk.cells, last.args.cell_index)
       IN  /\ old.cell_type = "code"
           /\ old.outputs # << >>
           /\ old.execution_count # None
           /\ new.cell_type = "markdown"
           /\ new.source = old.source

\* C20: after duplicate_cell(i) the original at i and the duplicate at i + 1
\* hold separate metadata: an update_cell_metadata on either of them stores the
\* value under the key in that cell and leaves the other cell's metadata as it
\* was copied from the original.
C20_DuplicateMetadataIsIndependent ==
    [][ (/\ last.op = "duplicate_cell"
         /\ last.status = "ok"
         /\ last'.op = "update_cell_metadata"
         /\ steps' = steps + 1
         /\ last'.args.cell_index \in
                {last.args.cell_index, last.args.cell_index + 1})
            => LET i      == last.args.cell_index
                   j      == last'.args.cell_index
                   other  == IF j = i THEN i + 1 ELSE i
                   copied == At(prev.cells, i).metadata
               IN  /\ last'.status = "ok"
                   /\ At(disk.cells, i).metadata = copied
                   /\ At(disk.cells, i + 1).metadata = copied
                   /\ At(disk'.cells, other).metadata = copied
                   /\ At(disk'.cells, j).metadata =
                          [copied EXCEPT ![last'.args.key] = StoredFor(last'.args.value)] ]_vars

\* C20's case: a cell with a metadata entry was duplicated, then the original
\* got a new value under that entry's key while the duplicate kept the entry.
C20_Witness ==
    /\ before.op = "duplicate_cell"
    /\ before.status = "ok"
    /\ last.op = "update_cell_metadata"
    /\ Returned
    /\ LET j == last.args.cell_index
       IN  /\ j + 1 < Len(prev.cells)
           /\ At(prev.cells, j + 1) = DuplicateOf(At(prev.cells, j))
           /\ At(prev.cells, j).metadata[last.args.key] # Absent
           /\ At(disk.cells, j + 1).metadata = At(prev.cells, j).metadata
           /\ At(disk.cells, j).metadata # At(disk.cells, j + 1).metadata

\* C21: an accepted move_cell(from, to) followed at once by move_cell(to, from)
\* restores the document: the second move is accepted and the stored document
\* is again the one the first move loaded, cell for cell.
C21_MoveBackRestores ==
    [][ (/\ last.op = "move_cell"
         /\ last.status = "ok"
         /\ last'.op = "move_cell"
         /\ steps' = steps + 1
         /\ last'.args.from_index = last.args.to_index
         /\ last'.args.to_index = last.args.from_index)
            => (last'.status = "ok" /\ last'.saves = 1 /\ disk' = prev) ]_vars

\* C21's case: on a three-cell document a cell was moved between the two ends
\* and the move in the other direction brought the first document back.
C21_Witness ==
    /\ before.op = "move_cell"
    /\ before.status = "ok"
    /\ last.op = "move_cell"
    /\ Returned
    /\ steps = 2
    /\ Len(disk.cells) = 3
    /\ {last.args.from_index, last.args.to_index} = {0, 2}
    /\ prev.cells = PopThenInsert(disk.cells, last.args.to_index, last.args.from_index)
    /\ prev.cells # disk.cells
    /\ disk \in InitDocs

ReadOnlyTools ==
    {"read_notebook", "read_cell", "search_notebook", "get_cell_context",
     "get_notebook_variables", "read_cell_output"}

\* C22: read_notebook, read_cell, search_notebook, get_cell_context,
\* get_notebook_variables and read_cell_output never save: after any of them,
\* returned or refused, nothing was handed to _save_notebook and the stored
\* document is the one the call loaded.
C22_ReadersNeverSave ==
    last.op \in ReadOnlyTools => (last.saves = 0 /\ disk = prev)

\* C22's case: after a deletion changed the stored document, a reading tool
\* was refused for its index and the document stayed as the deletion left it.
C22_Witness ==
    /\ before.op = "delete_cell"
    /\ before.status = "ok"
    /\ last.op \in ReadOnlyTools
    /\ Rejected
    /\ Len(disk.cells) = 2
    /\ disk = prev
    /\ disk \notin InitDocs

\* C23: for a valid target index get_cell_context returns whatever the radius:
\* with a radius >= 0 the returned cells hold the target exactly once, marked,
\* among at most 2 * radius + 1 cells; with a negative radius they are empty.
C23_ContextHoldsTargetIffRadiusNotNegative ==
    (last.op = "get_cell_context" /\ ~OutOfRange(Len(prev.cells), last.args.cell_index))
        => LET t     == last.args.cell_index
               r     == last.args.context_size
               cells == last.ret.cells
               hits  == {k \in 1..Len(cells) : cells[k].index = t}
           IN  /\ Returned
               /\ (r >= 0) => /\ Cardinality(hits) = 1
                              /\ \A k \in hits : cells[k].is_target
                              /\ Len(cells) <= 2 * r + 1
               /\ (r < 0) => cells = << >>
               /\ (hits # {}) <=> (r >= 0)

\* C23's case: on five cells, target 1 with radius -7, whose window would end
\* below index 0, returned no cell.
C23_Witness ==
    /\ last.op = "get_cell_context"
    /\ Returned
    /\ Len(prev.cells) = 5
    /\ last.args.cell_index = 1
    /\ last.args.context_size = -7
    /\ last.ret.end_idx < 0
    /\ last.ret.cells = << >>

====
